---- MODULE Spec2Model ----
(***************************************************************************)
(* The workflow graph editor of SFL Studio: the WorkflowEngine component   *)
(* (src/components/WorkflowEngine.tsx), the App callbacks it is wired to   *)
(* (onSave / onRun in src/App.tsx) and the localStorage store behind them  *)
(* (db.workflows in src/services/storage.ts).                              *)
(*                                                                         *)
(* One action is one browser event: the handler, the state updates it      *)
(* batches, the re-render and the effects of that render (the effect that  *)
(* copies the workflow prop into the component's workflow state).          *)
(*                                                                         *)
(* Representation: `task-<n>` and `wf-<n>` are the integer n (the reading  *)
(* of Date.now() they were built from), null / undefined is NULL, an array *)
(* is a sequence.  viewport.zoom is kept in thousandths and positions in   *)
(* thousandths of a pixel, so that zoom 1 is 1000 and a movement of 1px at *)
(* zoom 0.5 is 2000.                                                       *)
(***************************************************************************)
EXTENDS Integers, Sequences, FiniteSets, TLC

\* ---------------------------------------------------------------- bounds
MaxClock == 2
MaxTasks == 2
MaxTimers == 1
MaxFrames == 2
MaxWorkflows == 1
\* the bounds of SpecUpload: one task, one file being read
UploadMaxTasks == 1
MaxUploads == 1
\* the bounds of SpecRuns: two runs in flight
RunsMaxClock == 3
RunsMaxTasks == 1
RunsMaxTimers == 2
\* the bounds of SpecChain: a chain of three tasks
ChainMaxClock == 4
ChainMaxTasks == 3

MaxLogs == 2

SwitchMaxWorkflows == 2

NULL == 0

\* the toolbar button pressed in the model (one of the four task types)
AddTypes == {"INPUT"}

\* ------------------------------------------------------------- constants
CanvasW == 800
CanvasH == 600
HalfNodeW == 96
HalfNodeH == 40
ZoomMin == 100
ZoomMax == 3000
ZoomInit == 1000
Milli == 1000

VARIABLES
    now,               \* the reading of Date.now()
    currentWorkflow,   \* App: currentWorkflow (NoWorkflow when null)
    store,             \* localStorage: the workflows array
    timers,            \* pending setTimeout callbacks of onRun, oldest first
    workflow,          \* WorkflowEngine: workflow
    selectedTaskId,    \* WorkflowEngine: selectedTaskId
    viewport,          \* WorkflowEngine: viewport
    isPanning,         \* WorkflowEngine: isPanning
    draggingTaskId,    \* WorkflowEngine: draggingTaskId
    connectingFromId,  \* WorkflowEngine: connectingFromId
    crashed,           \* a render threw: React has unmounted the tree
    frames,            \* pointer-move and wheel events delivered so far
    uploads,           \* handleFileUpload calls waiting for file.text()
    lastOp             \* history: the event handled last, with its arguments

vars == <<now, currentWorkflow, store, timers, workflow, selectedTaskId,
          viewport, isPanning, draggingTaskId, connectingFromId, crashed,
          frames, uploads, lastOp>>

\* --------------------------------------------------------------- helpers
NoWorkflow == [id |-> NULL, tasks |-> <<>>, status |-> "IDLE",
               lastRun |-> NULL, logs |-> <<>>]

Viewport0 == [x |-> 0, y |-> 0, zoom |-> ZoomInit]

Range(s) == {s[i] : i \in DOMAIN s}

Includes(s, e) == \E i \in DOMAIN s : s[i] = e

\* Array.prototype.find on tasks by id: the index of the first match, 0 if none
FindIndex(tasks, id) ==
    IF \E i \in DOMAIN tasks : tasks[i].id = id
    THEN CHOOSE i \in DOMAIN tasks :
            /\ tasks[i].id = id
            /\ \A j \in DOMAIN tasks : tasks[j].id = id => i <= j
    ELSE 0

HasTask(tasks, id) == FindIndex(tasks, id) # 0

\* { ...t, ...updates }: updates is a function on some of t's fields
Merge(t, updates) ==
    [f \in DOMAIN t |-> IF f \in DOMAIN updates THEN updates[f] ELSE t[f]]

mounted == currentWorkflow.id # NULL

selectedTaskObj == FindIndex(workflow.tasks, selectedTaskId)

\* db.workflows.save: replace the entry with the same id, else push
dbWorkflowsSave(flows, w) ==
    IF \E i \in DOMAIN flows : flows[i].id = w.id
    THEN LET index == CHOOSE i \in DOMAIN flows :
                          /\ flows[i].id = w.id
                          /\ \A j \in DOMAIN flows : flows[j].id = w.id => i <= j
         IN [flows EXCEPT ![index] = w]
    ELSE Append(flows, w)

\* the rubber-band line dereferences find(connectingFromId)! while rendering
renderThrows(w, connecting) == connecting # NULL /\ ~HasTask(w.tasks, connecting)

\* history: an event, its arguments, and what it found (was)
Op(name, a, b, was) ==
    [op |-> name, a |-> a, b |-> b, was |-> was, updates |-> <<>>]

\* every event: not after a crash; the render that follows may throw
Event(name, a, b) ==
    /\ ~crashed
    /\ lastOp' = Op(name, a, b, 0)

\* the same for the events that carry an object of updates
EventWith(name, a, updates) ==
    /\ ~crashed
    /\ lastOp' = [Op(name, a, NULL, 0) EXCEPT !.updates = updates]

\* the same, recording how many tasks listed id a as a dependency of theirs
\* (b = NULL) or whether a task with id b listed a (b # NULL)
EventOn(name, a, b, tasks) ==
    /\ ~crashed
    /\ lastOp' = Op(name, a, b,
          Cardinality({i \in DOMAIN tasks :
                         /\ b # NULL => tasks[i].id = b
                         /\ Includes(tasks[i].dependencies, a)}))

Render == crashed' = (currentWorkflow'.id # NULL
                      /\ renderThrows(workflow', connectingFromId'))

\* saveWorkflow: setWorkflow(w); onSave(w) = db.workflows.save(w) and
\* setCurrentWorkflow(w); the effect then copies the prop back (the same w)
saveWorkflow(w) ==
    /\ workflow' = w
    /\ store' = dbWorkflowsSave(store, w)
    /\ currentWorkflow' = w

\* ------------------------------------------------------------------ Init
Init ==
    /\ now = 1
    /\ currentWorkflow = NoWorkflow
    /\ store = <<>>
    /\ timers = <<>>
    /\ workflow = NoWorkflow
    /\ selectedTaskId = NULL
    /\ viewport = Viewport0
    /\ isPanning = FALSE
    /\ draggingTaskId = NULL
    /\ connectingFromId = NULL
    /\ crashed = FALSE
    /\ frames = 0
    /\ uploads = <<>>
    /\ lastOp = Op("init", NULL, NULL, 0)

\* the clock advances
Tick ==
    /\ ~crashed
    /\ now' = now + 1
    /\ UNCHANGED <<currentWorkflow, store, timers, workflow, selectedTaskId,
                   viewport, isPanning, draggingTaskId, connectingFromId,
                   crashed, frames, uploads, lastOp>>

\* a freshly mounted WorkflowEngine showing w
MountEngine(w) ==
    /\ workflow' = w
    /\ selectedTaskId' = NULL
    /\ viewport' = Viewport0
    /\ isPanning' = FALSE
    /\ draggingTaskId' = NULL
    /\ connectingFromId' = NULL

\* App: the Create Workflow button
createWorkflow ==
    /\ ~mounted
    /\ Event("create", now, NULL)
    /\ LET w == [id |-> now, tasks |-> <<>>, status |-> "IDLE",
                 lastRun |-> NULL, logs |-> <<>>]
       IN /\ store' = dbWorkflowsSave(store, w)
          /\ currentWorkflow' = w
          /\ MountEngine(w)
    /\ UNCHANGED <<now, timers, frames>>
    /\ UNCHANGED uploads
    /\ Render

\* App: the close button of the lab view
closeWorkflow ==
    /\ mounted
    /\ Event("close", NULL, NULL)
    /\ currentWorkflow' = NoWorkflow
    /\ MountEngine(NoWorkflow)
    /\ UNCHANGED <<now, store, timers, frames>>
    /\ UNCHANGED uploads
    /\ Render

\* --------------------------------------------------------- task management
taskName(type) ==
    CASE type = "INPUT" -> "Input Source"
      [] type = "GENERATION" -> "New generation"
      [] type = "TRANSFORMATION" -> "New transformation"
      [] type = "ANALYSIS" -> "New analysis"
      [] OTHER -> "New human review"

\* `output_${n}`, for the task counts of the model
outputKey(n) ==
    CASE n = 1 -> "output_1"
      [] n = 2 -> "output_2"
      [] n = 3 -> "output_3"
      [] OTHER -> "output_n"

newTask(type) ==
    [id |-> now,
     type |-> type,
     name |-> taskName(type),
     config |-> [targetKey |-> outputKey(Len(workflow.tasks) + 1), inputType |-> "text"],
     position |-> [x |-> ((-viewport.x + (CanvasW * Milli) \div 2) * Milli)
                            \div viewport.zoom - HalfNodeW * Milli,
                   y |-> ((-viewport.y + (CanvasH * Milli) \div 2) * Milli)
                            \div viewport.zoom - HalfNodeH * Milli],
     dependencies |-> IF selectedTaskId # NULL THEN <<selectedTaskId>> ELSE <<>>]

\* the toolbar is rendered only while no task object is selected
handleAddTask(type) ==
    /\ mounted
    /\ selectedTaskObj = 0
    /\ Event("addTask", now, selectedTaskId)
    /\ saveWorkflow([workflow EXCEPT !.tasks = Append(@, newTask(type))])
    /\ selectedTaskId' = now
    /\ UNCHANGED <<now, timers, viewport, isPanning, draggingTaskId,
                   connectingFromId, frames>>
    /\ UNCHANGED uploads
    /\ Render

\* removal that forgets to prune the id from the other tasks' dependencies
deleteTaskKeepingEdges(tasks, id) == SelectSeq(tasks, LAMBDA t : t.id # id)

\* tasks.filter(t => t.id !== id).map(t => ({...t, dependencies: filter(d => d !== id)}))
deleteTask(tasks, id) ==
    LET kept == SelectSeq(tasks, LAMBDA t : t.id # id)
    IN [i \in DOMAIN kept |->
          [kept[i] EXCEPT !.dependencies = SelectSeq(@, LAMBDA d : d # id)]]

\* the Delete Task button of the node config panel: handleDeleteTask(selectedTaskId!)
handleDeleteTask ==
    /\ mounted
    /\ selectedTaskObj # 0
    /\ EventOn("removeTask", selectedTaskId, NULL, workflow.tasks)
    /\ saveWorkflow([workflow EXCEPT !.tasks = deleteTask(@, selectedTaskId)])
    /\ selectedTaskId' = NULL
    /\ UNCHANGED <<now, timers, viewport, isPanning, draggingTaskId,
                   connectingFromId, frames>>
    /\ UNCHANGED uploads
    /\ Render

\* an update that merges the fields into every task
updateTasksEverywhere(tasks, taskId, updates) ==
    [i \in DOMAIN tasks |-> Merge(tasks[i], updates)]

\* workflow.tasks.map(t => t.id === taskId ? { ...t, ...updates } : t)
updateTasks(tasks, taskId, updates) ==
    [i \in DOMAIN tasks |->
        IF tasks[i].id = taskId THEN Merge(tasks[i], updates) ELSE tasks[i]]

\* handleUpdateTask that saves whatever shouldSave says
handleUpdateTaskSaving(taskId, updates, shouldSave) ==
    saveWorkflow([workflow EXCEPT !.tasks = updateTasks(@, taskId, updates)])

handleUpdateTask(taskId, updates, shouldSave) ==
    LET updatedWorkflow ==
            [workflow EXCEPT !.tasks = updateTasks(@, taskId, updates)]
    IN IF shouldSave
       THEN saveWorkflow(updatedWorkflow)
       ELSE /\ workflow' = updatedWorkflow
            /\ UNCHANGED <<store, currentWorkflow>>

\* the Task Name input and the Task Type select of the node config panel
NameInputs == {"renamed"}
TypeInputs == {"ANALYSIS"}

PanelUpdates == {[f \in {"name"} |-> n] : n \in NameInputs}
                \cup {[f \in {"type"} |-> t] : t \in TypeInputs}

updateTask(updates) ==
    /\ mounted
    /\ selectedTaskObj # 0
    /\ EventWith("updateTask", selectedTaskId, updates)
    /\ handleUpdateTask(selectedTaskId, updates, TRUE)
    /\ UNCHANGED <<now, timers, selectedTaskId, viewport, isPanning,
                   draggingTaskId, connectingFromId, frames>>
    /\ UNCHANGED uploads
    /\ Render

\* { ...task.config, [key]: value }
configWith(config, key, value) ==
    [k \in DOMAIN config \cup {key} |-> IF k = key THEN value ELSE config[k]]

\* handleUpdateConfig run on the workflow w of the handler's closure: the
\* workflow it saves, or w itself when it returns early (no such task)
configUpdated(w, taskId, key, value) ==
    LET task == FindIndex(w.tasks, taskId)
    IN IF task = 0 THEN w
       ELSE [w EXCEPT !.tasks =
               updateTasks(@, taskId,
                   [f \in {"config"} |-> configWith(w.tasks[task].config, key, value)])]

\* the Output Variable input and the Input Type buttons of the panel
ConfigInputs == {<<"targetKey", "result">>, <<"inputType", "file">>}

\* the Input Type buttons are rendered for INPUT tasks only
updateConfig(key, value) ==
    /\ mounted
    /\ selectedTaskObj # 0
    /\ key = "inputType" => workflow.tasks[selectedTaskObj].type = "INPUT"
    /\ EventWith("updateConfig", selectedTaskId,
             [f \in {"config"} |->
                 configWith(workflow.tasks[selectedTaskObj].config, key, value)])
    /\ saveWorkflow(configUpdated(workflow, selectedTaskId, key, value))
    /\ UNCHANGED <<now, timers, selectedTaskId, viewport, isPanning,
                   draggingTaskId, connectingFromId, frames, uploads>>
    /\ Render

\* the files chosen in the model: a markdown file (read as text) and an
\* audio file (kept as a reference)
Files == {[name |-> "notes.md", type |-> "", text |-> "# notes"],
          [name |-> "clip.mp3", type |-> "audio/mpeg", text |-> ""]}

\* file.type.includes('text') || file.name.endsWith('.md' | '.json' | '.csv')
readAsText(file) == file.type = "text/plain" \/ file.name = "notes.md"

\* updates.inputValue, as the pieces its string is made of
inputValueOf(file) ==
    IF readAsText(file) THEN <<file.text>>
    ELSE <<"[Binary File Reference: ", file.name, "]">>

\* the updates object of handleFileUpload
fileUpdates(file) ==
    [fileName |-> file.name, fileType |-> file.type,
     inputValue |-> inputValueOf(file)]

\* the three handleUpdateConfig calls that end handleFileUpload, each on the
\* workflow w of the closure: the workflows they save, in order
uploadSaves(w, taskId, file) ==
    <<configUpdated(w, taskId, "fileName", file.name),
      configUpdated(w, taskId, "fileType", file.type),
      configUpdated(w, taskId, "inputValue", inputValueOf(file))>>

\* the state after the three saves: each does setWorkflow, db.workflows.save
\* and setCurrentWorkflow, so the last one stays in memory
uploadCommit(w, taskId, file) ==
    LET saves == uploadSaves(w, taskId, file)
    IN /\ store' = dbWorkflowsSave(dbWorkflowsSave(dbWorkflowsSave(
                        store, saves[1]), saves[2]), saves[3])
       /\ currentWorkflow' = saves[3]
       /\ IF mounted
          THEN /\ workflow' = saves[3]
               /\ UNCHANGED <<selectedTaskId, viewport, isPanning,
                              draggingTaskId, connectingFromId>>
          ELSE MountEngine(saves[3])

\* the file input of the panel (INPUT tasks whose inputType is not text):
\* handleFileUpload up to its await, or to its end for a file not read as text
chooseFile(file) ==
    /\ mounted
    /\ selectedTaskObj # 0
    /\ workflow.tasks[selectedTaskObj].type = "INPUT"
    /\ workflow.tasks[selectedTaskObj].config.inputType # "text"
    /\ EventWith("chooseFile", selectedTaskId, fileUpdates(file))
    /\ IF readAsText(file)
       THEN /\ uploads' = Append(uploads,
                    [taskId |-> selectedTaskId, w |-> workflow, file |-> file])
            /\ UNCHANGED <<workflow, store, currentWorkflow, selectedTaskId,
                           viewport, isPanning, draggingTaskId, connectingFromId>>
       ELSE /\ uploadCommit(workflow, selectedTaskId, file)
            /\ UNCHANGED uploads
    /\ UNCHANGED <<now, timers, frames>>
    /\ Render

\* file.text() has resolved: the rest of the oldest waiting handleFileUpload
fileRead ==
    /\ uploads # <<>>
    /\ EventWith("fileRead", Head(uploads).taskId, fileUpdates(Head(uploads).file))
    /\ uploadCommit(Head(uploads).w, Head(uploads).taskId, Head(uploads).file)
    /\ uploads' = Tail(uploads)
    /\ UNCHANGED <<now, timers, frames>>
    /\ Render

\* the X button of the node config panel
deselect ==
    /\ mounted
    /\ selectedTaskObj # 0
    /\ Event("deselect", selectedTaskId, NULL)
    /\ selectedTaskId' = NULL
    /\ UNCHANGED <<now, currentWorkflow, store, timers, workflow, viewport,
                   isPanning, draggingTaskId, connectingFromId, frames>>
    /\ UNCHANGED uploads
    /\ Render

\* --------------------------------------------------- connection management
\* handleConnect without its "already connected" check
connectedUnchecked(w, sourceId, targetId) ==
    IF sourceId = targetId \/ ~HasTask(w.tasks, targetId) THEN w
    ELSE [w EXCEPT !.tasks =
            [i \in DOMAIN @ |->
               IF @[i].id = targetId
               THEN [@[i] EXCEPT !.dependencies = Append(@, sourceId)]
               ELSE @[i]]]

\* handleConnect: the workflow to save, or the workflow itself on an early return
connected(w, sourceId, targetId) ==
    LET target == FindIndex(w.tasks, targetId)
    IN IF sourceId = targetId THEN w
       ELSE IF target = 0 THEN w
       ELSE IF Includes(w.tasks[target].dependencies, sourceId) THEN w
       ELSE [w EXCEPT !.tasks =
               [i \in DOMAIN @ |->
                  IF @[i].id = targetId
                  THEN [@[i] EXCEPT !.dependencies = Append(@, sourceId)]
                  ELSE @[i]]]

handleConnect(sourceId, targetId) ==
    IF connected(workflow, sourceId, targetId) = workflow
    THEN UNCHANGED <<workflow, store, currentWorkflow>>
    ELSE saveWorkflow(connected(workflow, sourceId, targetId))

\* a disconnect that drops sourceId from the dependencies of every task
disconnectedEverywhere(w, sourceId, targetId) ==
    [w EXCEPT !.tasks =
       [i \in DOMAIN @ |->
          [@[i] EXCEPT !.dependencies = SelectSeq(@, LAMBDA d : d # sourceId)]]]

\* handleDisconnect always saves
disconnected(w, sourceId, targetId) ==
    [w EXCEPT !.tasks =
       [i \in DOMAIN @ |->
          IF @[i].id = targetId
          THEN [@[i] EXCEPT !.dependencies = SelectSeq(@, LAMBDA d : d # sourceId)]
          ELSE @[i]]]

TaskIds == {workflow.tasks[i].id : i \in DOMAIN workflow.tasks}

handleDisconnect(sourceId, targetId) ==
    /\ mounted
    /\ EventOn("disconnect", sourceId, targetId, workflow.tasks)
    /\ saveWorkflow(disconnected(workflow, sourceId, targetId))
    /\ UNCHANGED <<now, timers, selectedTaskId, viewport, isPanning,
                   draggingTaskId, connectingFromId, frames>>
    /\ UNCHANGED uploads
    /\ Render

\* ------------------------------------------------------------- the canvas
\* e.deltaY of the wheel events: a small step down and a large step up
WheelDeltas == {500, -5000}
\* e.movementX / e.movementY of the pointer-move events, in pixels
Movements == {[x |-> 12, y |-> -6]}

Min(a, b) == IF a < b THEN a ELSE b
Max(a, b) == IF a > b THEN a ELSE b

\* handleWheel without the clamp of the new zoom
handleWheelUnclamped(deltaY) ==
    /\ mounted
    /\ Event("wheel", deltaY, NULL)
    /\ viewport' = [viewport EXCEPT !.zoom = viewport.zoom + (-deltaY)]
    /\ frames' = frames + 1
    /\ UNCHANGED <<now, currentWorkflow, store, timers, workflow, selectedTaskId,
                   isPanning, draggingTaskId, connectingFromId>>
    /\ UNCHANGED uploads
    /\ Render

\* deltaY * 0.001 in thousandths is deltaY itself
handleWheel(deltaY) ==
    /\ mounted
    /\ Event("wheel", deltaY, NULL)
    /\ viewport' = [viewport EXCEPT
                      !.zoom = Min(Max(viewport.zoom + (-deltaY), ZoomMin), ZoomMax)]
    /\ frames' = frames + 1
    /\ UNCHANGED <<now, currentWorkflow, store, timers, workflow, selectedTaskId,
                   isPanning, draggingTaskId, connectingFromId>>
    /\ UNCHANGED uploads
    /\ Render

\* the transform layer (absolute inset-0, translated and scaled) lies over the
\* container; e.target is the container itself only where the layer is not
backgroundExposed ==
    \/ viewport.x > 0
    \/ viewport.y > 0
    \/ viewport.x + CanvasW * viewport.zoom < CanvasW * Milli
    \/ viewport.y + CanvasH * viewport.zoom < CanvasH * Milli

\* pointer-down that reaches the canvas handler: on the container or on the layer
handleMouseDown(panModifier, onContainer) ==
    /\ mounted
    /\ onContainer => backgroundExposed
    /\ Event("mouseDown", IF panModifier THEN 1 ELSE 0, IF onContainer THEN 1 ELSE 0)
    /\ IF panModifier
       THEN /\ isPanning' = TRUE
            /\ UNCHANGED selectedTaskId
       ELSE IF onContainer
       THEN /\ isPanning' = TRUE
            /\ selectedTaskId' = NULL
       ELSE UNCHANGED <<isPanning, selectedTaskId>>
    /\ UNCHANGED <<now, currentWorkflow, store, timers, workflow, viewport,
                   draggingTaskId, connectingFromId, frames>>
    /\ UNCHANGED uploads
    /\ Render

handleMouseMove(movement) ==
    /\ mounted
    /\ Event("mouseMove", movement.x, movement.y)
    /\ frames' = frames + 1
    /\ IF isPanning
       THEN /\ viewport' = [viewport EXCEPT !.x = @ + movement.x * Milli,
                                            !.y = @ + movement.y * Milli]
            /\ UNCHANGED <<workflow, store, currentWorkflow>>
       ELSE IF draggingTaskId # NULL /\ HasTask(workflow.tasks, draggingTaskId)
       THEN LET dx == (movement.x * Milli * Milli) \div viewport.zoom
                dy == (movement.y * Milli * Milli) \div viewport.zoom
                task == workflow.tasks[FindIndex(workflow.tasks, draggingTaskId)]
            IN /\ handleUpdateTask(draggingTaskId,
                      [f \in {"position"} |->
                          [x |-> task.position.x + dx, y |-> task.position.y + dy]],
                      FALSE)
               /\ UNCHANGED viewport
       ELSE UNCHANGED <<viewport, workflow, store, currentWorkflow>>
    /\ UNCHANGED <<now, timers, selectedTaskId, isPanning, draggingTaskId,
                   connectingFromId>>
    /\ UNCHANGED uploads
    /\ Render

\* pointer-up that reaches the canvas handler, and pointer-leave
handleMouseUp ==
    /\ mounted
    /\ Event("mouseUp", NULL, NULL)
    /\ IF draggingTaskId # NULL
       THEN saveWorkflow(workflow)
       ELSE UNCHANGED <<workflow, store, currentWorkflow>>
    /\ draggingTaskId' = NULL
    /\ connectingFromId' = NULL
    /\ isPanning' = FALSE
    /\ UNCHANGED <<now, timers, selectedTaskId, viewport, frames>>
    /\ UNCHANGED uploads
    /\ Render

\* a pointer-down on a child of the canvas whose handler lets the event
\* bubble: the canvas's handleMouseDown runs too, and pans on the pan modifier
isPanningAfterBubbling(stopped, panModifier) == isPanning \/ panModifier

\* isPanning after a pointer-down on a child of the canvas: the canvas's
\* handleMouseDown runs only if the child's handler did not stop the
\* propagation, and then e.target is not the container
isPanningAfterChild(stopped, panModifier) ==
    IF stopped THEN isPanning ELSE isPanning \/ panModifier

\* pointer-down on a node body (or on its input handle, which has no
\* onMouseDown of its own), with the pan modifier held or not
handleNodeMouseDown(taskId, panModifier) ==
    /\ mounted
    /\ taskId \in TaskIds
    /\ Event("nodeMouseDown", taskId, IF panModifier THEN 1 ELSE 0)
    /\ draggingTaskId' = taskId
    /\ selectedTaskId' = taskId
    /\ isPanning' = isPanningAfterChild(TRUE, panModifier)
    /\ UNCHANGED <<now, currentWorkflow, store, timers, workflow, viewport,
                   connectingFromId, frames>>
    /\ UNCHANGED uploads
    /\ Render

\* pointer-down on a node's output handle
outputHandleMouseDown(taskId, panModifier) ==
    /\ mounted
    /\ taskId \in TaskIds
    /\ Event("outputMouseDown", taskId, IF panModifier THEN 1 ELSE 0)
    /\ connectingFromId' = taskId
    /\ isPanning' = isPanningAfterChild(TRUE, panModifier)
    /\ UNCHANGED <<now, currentWorkflow, store, timers, workflow, selectedTaskId,
                   viewport, draggingTaskId, frames>>
    /\ UNCHANGED uploads
    /\ Render

\* pointer-up on a node's input handle (the event does not reach the canvas)
inputHandleMouseUp(taskId) ==
    /\ mounted
    /\ taskId \in TaskIds
    /\ EventOn("inputMouseUp", connectingFromId, taskId, workflow.tasks)
    /\ IF connectingFromId # NULL
       THEN /\ handleConnect(connectingFromId, taskId)
            /\ connectingFromId' = NULL
       ELSE UNCHANGED <<workflow, store, currentWorkflow, connectingFromId>>
    /\ UNCHANGED <<now, timers, selectedTaskId, viewport, isPanning,
                   draggingTaskId, frames>>
    /\ UNCHANGED uploads
    /\ Render

\* ------------------------------------------------------------------ runs
\* { ...w, status: 'RUNNING', lastRun: Date.now() }
runningW(w) == [w EXCEPT !.status = "RUNNING", !.lastRun = now]

\* { ...runningW, status: 'COMPLETED' }
completedW(running) == [running EXCEPT !.status = "COMPLETED"]

\* the Execute Workflow button (in the toolbar): onRun(workflow)
onRun ==
    /\ mounted
    /\ selectedTaskObj = 0
    /\ Event("run", now, NULL)
    /\ currentWorkflow' = runningW(workflow)
    /\ workflow' = runningW(workflow)
    /\ timers' = Append(timers, runningW(workflow))
    /\ UNCHANGED <<now, store, selectedTaskId, viewport, isPanning,
                   draggingTaskId, connectingFromId, frames>>
    /\ UNCHANGED uploads
    /\ Render

\* the setTimeout callback of the oldest pending run
runTimeout ==
    /\ timers # <<>>
    /\ now > Head(timers).lastRun
    /\ Event("complete", Head(timers).id, Head(timers).lastRun)
    /\ currentWorkflow' = completedW(Head(timers))
    /\ IF mounted
       THEN /\ workflow' = completedW(Head(timers))
            /\ UNCHANGED <<selectedTaskId, viewport, isPanning,
                           draggingTaskId, connectingFromId>>
       ELSE MountEngine(completedW(Head(timers)))
    /\ timers' = Tail(timers)
    /\ UNCHANGED <<now, store, frames>>
    /\ UNCHANGED uploads
    /\ Render

\* ------------------------------------------------- the graph editor and runs
\* The bounds of the model are conjoined here, not in the actions.  A run is
\* started only while the clock can still advance, so that its timer can fire.
Next ==
    \/ now < MaxClock /\ Tick
    \/ Len(store) < MaxWorkflows /\ createWorkflow
    \/ Len(workflow.tasks) < MaxTasks /\ \E type \in AddTypes : handleAddTask(type)
    \/ handleDeleteTask
    \/ \E updates \in PanelUpdates : updateTask(updates)
    \/ deselect
    \/ \E s \in 1..MaxClock, t \in 1..MaxClock : handleDisconnect(s, t)
    \/ handleMouseUp
    \/ \E taskId \in TaskIds : handleNodeMouseDown(taskId, FALSE)
    \/ \E taskId \in TaskIds : outputHandleMouseDown(taskId, FALSE)
    \/ \E taskId \in TaskIds : inputHandleMouseUp(taskId)
    \/ Len(timers) < MaxTimers /\ now < MaxClock /\ onRun
    \/ runTimeout

Spec == Init /\ [][Next]_vars

\* ------------------------------------------------------ overlapping runs
\* A small workflow is edited and run, with room for two runs in flight.
NextRuns ==
    \/ now < RunsMaxClock /\ Tick
    \/ Len(store) < MaxWorkflows /\ createWorkflow
    \/ Len(workflow.tasks) < RunsMaxTasks /\ \E type \in AddTypes : handleAddTask(type)
    \/ handleDeleteTask
    \/ deselect
    \/ \E taskId \in TaskIds : handleNodeMouseDown(taskId, FALSE)
    \/ handleMouseUp
    \/ Len(timers) < RunsMaxTimers /\ now < RunsMaxClock /\ onRun
    \/ runTimeout

SpecRuns == Init /\ [][NextRuns]_vars

\* --------------------------------------------------- building and running
\* Tasks are added and connected, with room for a chain of three tasks, and
\* the workflow is run.
NextChain ==
    \/ now < ChainMaxClock /\ Tick
    \/ Len(store) < MaxWorkflows /\ createWorkflow
    \/ Len(workflow.tasks) < ChainMaxTasks /\ \E type \in AddTypes : handleAddTask(type)
    \/ deselect
    \/ \E taskId \in TaskIds : outputHandleMouseDown(taskId, FALSE)
    \/ \E taskId \in TaskIds : inputHandleMouseUp(taskId)
    \/ Len(timers) < MaxTimers /\ now < ChainMaxClock /\ onRun
    \/ runTimeout

SpecChain == Init /\ [][NextChain]_vars

\* ------------------------------------------------------------- the canvas
\* Tasks are added and the pointer and the wheel act on the canvas, its nodes
\* and their handles; frames bounds the pointer-move and wheel events.
NextCanvas ==
    \/ now < MaxClock /\ Tick
    \/ Len(store) < MaxWorkflows /\ createWorkflow
    \/ Len(workflow.tasks) < MaxTasks /\ \E type \in AddTypes : handleAddTask(type)
    \/ deselect
    \/ frames < MaxFrames /\ \E deltaY \in WheelDeltas : handleWheel(deltaY)
    \/ \E panModifier \in BOOLEAN, onContainer \in BOOLEAN :
          handleMouseDown(panModifier, onContainer)
    \/ frames < MaxFrames /\ \E movement \in Movements : handleMouseMove(movement)
    \/ handleMouseUp
    \/ \E taskId \in TaskIds, panModifier \in BOOLEAN :
          handleNodeMouseDown(taskId, panModifier)
    \/ \E taskId \in TaskIds, panModifier \in BOOLEAN :
          outputHandleMouseDown(taskId, panModifier)
    \/ \E taskId \in TaskIds : inputHandleMouseUp(taskId)

SpecCanvas == Init /\ [][NextCanvas]_vars

\* ---------------------------------------------------- the node config panel
\* Tasks are added, connected and edited in the panel.
NextPanel ==
    \/ now < MaxClock /\ Tick
    \/ Len(store) < MaxWorkflows /\ createWorkflow
    \/ Len(workflow.tasks) < MaxTasks /\ \E type \in AddTypes : handleAddTask(type)
    \/ \E updates \in PanelUpdates : updateTask(updates)
    \/ \E input \in ConfigInputs : updateConfig(input[1], input[2])
    \/ deselect
    \/ \E taskId \in TaskIds : outputHandleMouseDown(taskId, FALSE)
    \/ \E taskId \in TaskIds : inputHandleMouseUp(taskId)

SpecPanel == Init /\ [][NextPanel]_vars

\* ------------------------------------------------------------ file uploads
\* A task is added, edited and removed in the panel while files are uploaded.
NextUpload ==
    \/ Len(store) < MaxWorkflows /\ createWorkflow
    \/ Len(workflow.tasks) < UploadMaxTasks /\ \E type \in AddTypes : handleAddTask(type)
    \/ handleDeleteTask
    \/ \E updates \in PanelUpdates : updateTask(updates)
    \/ \E input \in ConfigInputs : updateConfig(input[1], input[2])
    \/ deselect
    \/ closeWorkflow
    \/ Len(uploads) < MaxUploads /\ \E file \in Files : chooseFile(file)
    \/ fileRead

SpecUpload == Init /\ [][NextUpload]_vars

\* ------------------------------------------------- runs with fair scheduling
\* A task is added, selected and given a file while the workflow is run and
\* closed.  Time passes, a setTimeout callback whose delay has passed is
\* called, and the promise of file.text() settles: these three are fair; the
\* user's events are not.
NextLab ==
    \/ now < MaxClock /\ Tick
    \/ Len(store) < MaxWorkflows /\ createWorkflow
    \/ Len(workflow.tasks) < UploadMaxTasks /\ \E type \in AddTypes : handleAddTask(type)
    \/ \E input \in ConfigInputs : updateConfig(input[1], input[2])
    \/ deselect
    \/ \E taskId \in TaskIds : handleNodeMouseDown(taskId, FALSE)
    \/ handleMouseUp
    \/ closeWorkflow
    \/ Len(uploads) < MaxUploads /\ \E file \in Files : chooseFile(file)
    \/ fileRead
    \/ Len(timers) < MaxTimers /\ now < MaxClock /\ onRun
    \/ runTimeout

SpecLab ==
    /\ Init
    /\ [][NextLab]_vars
    /\ WF_vars(now < MaxClock /\ Tick)
    /\ WF_vars(runTimeout)
    /\ WF_vars(fileRead)

\* ------------------------------------------------------ switching workflows
\* Workflows are created, edited, run and closed, with room for a second one.
NextSwitch ==
    \/ now < RunsMaxClock /\ Tick
    \/ Len(store) < SwitchMaxWorkflows /\ createWorkflow
    \/ closeWorkflow
    \/ Len(workflow.tasks) < RunsMaxTasks /\ \E type \in AddTypes : handleAddTask(type)
    \/ deselect
    \/ Len(timers) < MaxTimers /\ now < RunsMaxClock /\ onRun
    \/ runTimeout

SpecSwitch == Init /\ [][NextSwitch]_vars

\* --------------------------------------------------------- the status badge
\* getTaskStatus: logs.find returns the first entry that matches, in the
\* order of the array; a missing entry gives 'PENDING'
getTaskStatus(w, id) ==
    LET matching == {i \in DOMAIN w.logs : /\ w.logs[i].taskId = id
                                         /\ w.logs[i].timestamp = w.lastRun}
    IN IF matching = {} THEN "PENDING"
       ELSE w.logs[CHOOSE i \in matching : \A j \in matching : i <= j].status

\* WorkflowExecutionLog, over the ids and the run stamps of the model
LogStatuses == {"PENDING", "RUNNING", "COMPLETED", "FAILED"}
LogEntries == [taskId : 1..2, status : LogStatuses, timestamp : 1..2]
LogSequences == UNION {[1..n -> LogEntries] : n \in 0..MaxLogs}

\* a workflow of one task, as read from the store at mount, with any logs
\* of the type and either run stamp
InitStatus ==
    /\ now = 3
    /\ \E logs \in LogSequences, lastRun \in 1..2, status \in {"COMPLETED", "FAILED"} :
          LET task == [id |-> 1, type |-> "INPUT", name |-> "New Input",
                       config |-> [targetKey |-> "output_1", inputType |-> "text"],
                       position |-> [x |-> 250000, y |-> 150000],
                       dependencies |-> <<>>]
              w == [id |-> 1, tasks |-> <<task>>, status |-> status,
                    lastRun |-> lastRun, logs |-> logs]
          IN /\ currentWorkflow = w
             /\ store = <<w>>
             /\ workflow = w
    /\ timers = <<>>
    /\ selectedTaskId = NULL
    /\ viewport = Viewport0
    /\ isPanning = FALSE
    /\ draggingTaskId = NULL
    /\ connectingFromId = NULL
    /\ crashed = FALSE
    /\ frames = 0
    /\ uploads = <<>>
    /\ lastOp = Op("init", NULL, NULL, 0)

\* the render of a node computes its badge
renderNode(taskId) ==
    /\ mounted
    /\ ~crashed
    /\ lastOp' = Op("getTaskStatus", taskId, NULL,
                    getTaskStatus(workflow, taskId))
    /\ UNCHANGED <<now, currentWorkflow, store, timers, workflow,
                   selectedTaskId, viewport, isPanning, draggingTaskId,
                   connectingFromId, crashed, frames, uploads>>

NextStatus ==
    \/ \E taskId \in TaskIds : renderNode(taskId)
    \/ \E taskId \in TaskIds : handleNodeMouseDown(taskId, FALSE)
    \/ handleMouseUp
    \/ deselect

SpecStatus == InitStatus /\ [][NextStatus]_vars

\* ------------------------------------------------------ graph predicates
\* ids of the tasks that list some id of S among their dependencies
Dependents(tasks, S) ==
    {tasks[i].id : i \in {j \in DOMAIN tasks :
                            \E d \in S : Includes(tasks[j].dependencies, d)}}

RECURSIVE Closure(_, _, _)
Closure(tasks, S, n) ==
    IF n = 0 THEN S
    ELSE Closure(tasks, S \cup Dependents(tasks, S), n - 1)

\* ids reached from id along one or more dependency edges
Downstream(tasks, id) == Closure(tasks, Dependents(tasks, {id}), Len(tasks))

Acyclic(tasks) == \A i \in DOMAIN tasks : tasks[i].id \notin Downstream(tasks, tasks[i].id)

NoDangling(tasks) ==
    \A i \in DOMAIN tasks : \A k \in DOMAIN tasks[i].dependencies :
        HasTask(tasks, tasks[i].dependencies[k])

\* ------------------------------------------------------------------ claims

\* C1: in every reachable state of the editor, every id in any task's
\* dependencies is the id of a task of the same workflow (in memory, in the
\* App's currentWorkflow and in the store).
C1_NoDanglingDependencies ==
    /\ NoDangling(workflow.tasks)
    /\ NoDangling(currentWorkflow.tasks)
    /\ \A i \in DOMAIN store : NoDangling(store[i].tasks)

\* C2: a connect never closes a cycle: a connect gesture (pointer-up on an
\* input handle while connecting) that starts from an acyclic dependency
\* relation leaves it acyclic.
C2_ConnectKeepsAcyclic ==
    [][(lastOp'.op = "inputMouseUp" /\ Acyclic(workflow.tasks))
          => Acyclic(workflow'.tasks)]_vars

\* ------------------------------------------------------- runs and logs
Terminal == {"COMPLETED", "FAILED"}

\* the log entries of w's current run for the task id, as indices of w.logs
RunEntries(w, id) ==
    {k \in DOMAIN w.logs : w.logs[k].taskId = id /\ w.logs[k].timestamp = w.lastRun}

\* the execution order recorded in w.logs respects the dependencies: an entry
\* of the current run for a task comes after a terminal entry of the same run
\* for each of its dependencies
TopologicallyLogged(w) ==
    \A k \in DOMAIN w.logs : \A i \in DOMAIN w.tasks :
        (w.logs[k].timestamp = w.lastRun /\ w.logs[k].taskId = w.tasks[i].id) =>
            \A n \in DOMAIN w.tasks[i].dependencies :
                \E j \in RunEntries(w, w.tasks[i].dependencies[n]) :
                    j < k /\ w.logs[j].status \in Terminal

HasEdge(tasks) == \E i \in DOMAIN tasks : tasks[i].dependencies # <<>>

\* tasks 1 <- 2 <- 3
IsChain(tasks) ==
    /\ Len(tasks) = 3
    /\ tasks[1].id # tasks[2].id /\ tasks[2].id # tasks[3].id /\ tasks[1].id # tasks[3].id
    /\ tasks[1].dependencies = <<>>
    /\ tasks[2].dependencies = <<tasks[1].id>>
    /\ tasks[3].dependencies = <<tasks[2].id>>

C4_ChainRunLogs ==
    (lastOp.op = "complete" /\ IsChain(workflow.tasks)) =>
        /\ workflow.status = "COMPLETED"
        /\ Len(workflow.logs) = 3
        /\ \A k \in 1..3 :
              /\ workflow.logs[k].taskId = workflow.tasks[k].id
              /\ workflow.logs[k].timestamp = workflow.lastRun

\* C5: the workflow status is never COMPLETED while some task of the workflow
\* has no terminal log entry of the current run.
C5_CompletedOnlyWhenAllTerminal ==
    currentWorkflow.status = "COMPLETED" =>
        \A i \in DOMAIN currentWorkflow.tasks :
            \E k \in RunEntries(currentWorkflow, currentWorkflow.tasks[i].id) :
                currentWorkflow.logs[k].status \in Terminal

\* the status transitions the state machine allows
AllowedTransitions ==
    {<<"IDLE", "RUNNING">>, <<"RUNNING", "COMPLETED">>, <<"RUNNING", "FAILED">>,
     <<"COMPLETED", "IDLE">>, <<"FAILED", "IDLE">>,
     <<"COMPLETED", "RUNNING">>, <<"FAILED", "RUNNING">>}

\* C6: the workflow status changes only along IDLE -> RUNNING ->
\* {COMPLETED | FAILED} -> IDLE (or -> RUNNING on a re-run), and a run
\* completion happens only in status RUNNING (no second completion of a
\* workflow that is already COMPLETED).
C6_StatusTransitions ==
    [][/\ currentWorkflow'.status # currentWorkflow.status =>
            <<currentWorkflow.status, currentWorkflow'.status>> \in AllowedTransitions
       /\ (lastOp'.op = "complete" /\ now' = now) =>
            currentWorkflow.status = "RUNNING"]_vars

\* C7: at most one run of a workflow is in flight: no two pending completions
\* belong to the same workflow.
C7_OneRunInFlight ==
    \A i, j \in DOMAIN timers : timers[i].id = timers[j].id => i = j

\* C8: a removeTask(id) leaves no task with that id and no dependency on it,
\* and keeps the other tasks, in their order, with every field but
\* dependencies as it was and with dependencies losing only id.
C8_RemoveTask ==
    [][(lastOp'.op = "removeTask" /\ now' = now) =>
         LET id == lastOp'.a
             old == workflow.tasks
             new == workflow'.tasks
             kept == {i \in DOMAIN old : old[i].id # id}
             place(i) == Cardinality({j \in kept : j <= i})
         IN /\ ~HasTask(new, id)
            /\ \A k \in DOMAIN new : ~Includes(new[k].dependencies, id)
            /\ Len(new) = Cardinality(kept)
            /\ \A i \in kept :
                  /\ new[place(i)].id = old[i].id
                  /\ new[place(i)].type = old[i].type
                  /\ new[place(i)].name = old[i].name
                  /\ new[place(i)].config = old[i].config
                  /\ new[place(i)].position = old[i].position
                  /\ Range(new[place(i)].dependencies) = Range(old[i].dependencies) \ {id}
                  /\ ~Includes(old[i].dependencies, id) =>
                        new[place(i)].dependencies = old[i].dependencies]_vars

\* a task that another task depended on has just been removed, and a task
\* that depended on it remains
C8_Witness ==
    /\ lastOp.op = "removeTask"
    /\ lastOp.was > 0
    /\ workflow.tasks # <<>>
    /\ ~HasTask(workflow.tasks, lastOp.a)

NoDuplicateDependencies(tasks) ==
    \A i \in DOMAIN tasks : \A k, l \in DOMAIN tasks[i].dependencies :
        tasks[i].dependencies[k] = tasks[i].dependencies[l] => k = l

\* C9: a connect(s, t) with s already in t.dependencies changes nothing, and in
\* every reachable state no task's dependencies holds an id twice.
C9_ConnectOnce ==
    /\ [](NoDuplicateDependencies(workflow.tasks))
    /\ [][(lastOp'.op = "inputMouseUp" /\ now' = now /\ lastOp'.a # NULL
             /\ \E i \in DOMAIN workflow.tasks :
                   /\ workflow.tasks[i].id = lastOp'.b
                   /\ Includes(workflow.tasks[i].dependencies, lastOp'.a))
          => UNCHANGED <<workflow, store, currentWorkflow>>]_vars

\* a connect(s, t) was attempted while t already depended on s
C9_Witness ==
    /\ lastOp.op = "inputMouseUp"
    /\ lastOp.a # NULL
    /\ lastOp.a # lastOp.b
    /\ lastOp.was > 0
    /\ \E i \in DOMAIN workflow.tasks :
          /\ workflow.tasks[i].id = lastOp.b
          /\ Includes(workflow.tasks[i].dependencies, lastOp.a)

C11_DisconnectIdempotent ==
    [][(lastOp'.op = "disconnect" /\ now' = now) =>
         /\ ~crashed'
         /\ lastOp'.was = 0 => workflow'.tasks = workflow.tasks
         /\ \A k \in DOMAIN workflow'.tasks :
               workflow'.tasks[k].id = lastOp'.b =>
                   ~Includes(workflow'.tasks[k].dependencies, lastOp'.a)
         /\ disconnected(workflow', lastOp'.a, lastOp'.b) = workflow']_vars

\* disconnect(A, B) was called for a B that is no task of a workflow that has
\* a dependency on A
C11_Witness ==
    /\ lastOp.op = "disconnect"
    /\ lastOp.was = 0
    /\ ~HasTask(workflow.tasks, lastOp.b)
    /\ \E i \in DOMAIN workflow.tasks :
          Includes(workflow.tasks[i].dependencies, lastOp.a)

\* C12: in every reachable state the ids of the tasks of the workflow are
\* pairwise distinct (every addTask made a task with an id no task had).
C12_UniqueTaskIds ==
    \A i, j \in DOMAIN workflow.tasks :
        workflow.tasks[i].id = workflow.tasks[j].id => i = j

\* ------------------------------------------------------------ the canvas
\* db.workflows.getAll().find(w => w.id === id), NoWorkflow if there is none
Persisted(flows, id) ==
    IF \E i \in DOMAIN flows : flows[i].id = id
    THEN flows[CHOOSE i \in DOMAIN flows : flows[i].id = id]
    ELSE NoWorkflow

\* C13: after every gesture-completion boundary (a task added, removed or
\* updated, a connection made, a disconnect, a pointer-up that releases a node
\* drag) the workflow persisted under the workflow's id equals the workflow
\* in memory.
C13_SavedAtGestureBoundaries ==
    [][(/\ now' = now
        /\ \/ lastOp'.op \in {"addTask", "removeTask", "updateTask", "disconnect"}
           \/ lastOp'.op = "inputMouseUp" /\ workflow' # workflow
           \/ lastOp'.op \in {"mouseUp", "inputMouseUp"} /\ draggingTaskId # NULL)
         => Persisted(store', workflow'.id) = workflow']_vars

\* C14: a pointer-move while a task is dragged makes no save (the store and
\* the App's workflow stay as they were), leaves every task with another id
\* as it was, and changes no field but position of the dragged task.
C14_DragFramesNotPersisted ==
    [][(lastOp'.op = "mouseMove" /\ frames' = frames + 1 /\ draggingTaskId # NULL) =>
         /\ store' = store
         /\ currentWorkflow' = currentWorkflow
         /\ [workflow' EXCEPT !.tasks = workflow.tasks] = workflow
         /\ Len(workflow'.tasks) = Len(workflow.tasks)
         /\ \A i \in DOMAIN workflow.tasks :
               IF workflow.tasks[i].id = draggingTaskId
               THEN [workflow'.tasks[i] EXCEPT !.position = workflow.tasks[i].position]
                       = workflow.tasks[i]
               ELSE workflow'.tasks[i] = workflow.tasks[i]]_vars

\* a pointer-move has just moved the dragged task, next to a task it did not
\* move, and the moved position is not the persisted one
C14_Witness ==
    /\ lastOp.op = "mouseMove"
    /\ draggingTaskId # NULL
    /\ Len(workflow.tasks) = 2
    /\ workflow.tasks[1].id # workflow.tasks[2].id
    /\ \E i \in DOMAIN workflow.tasks :
          /\ workflow.tasks[i].id = draggingTaskId
          /\ Persisted(store, workflow.id).tasks[i].position
                # workflow.tasks[i].position

\* C15: a pointer-move by (dx, dy) while task id is dragged changes the
\* position of task id by exactly (dx / zoom, dy / zoom), and nothing but a
\* pointer-move changes that position while the drag lasts (so that a
\* sequence of moves adds up the per-move deltas).
C15_DragUnderZoom ==
    [][/\ (lastOp'.op = "mouseMove" /\ frames' = frames + 1 /\ draggingTaskId # NULL) =>
            \A i \in DOMAIN workflow.tasks :
                workflow.tasks[i].id = draggingTaskId =>
                    /\ (workflow'.tasks[i].position.x - workflow.tasks[i].position.x)
                          * viewport.zoom = lastOp'.a * Milli * Milli
                    /\ (workflow'.tasks[i].position.y - workflow.tasks[i].position.y)
                          * viewport.zoom = lastOp'.b * Milli * Milli
       /\ (/\ draggingTaskId # NULL /\ draggingTaskId' = draggingTaskId
           /\ ~(lastOp'.op = "mouseMove" /\ frames' = frames + 1)) =>
            \A i \in DOMAIN workflow.tasks :
                workflow.tasks[i].id = draggingTaskId =>
                    /\ i \in DOMAIN workflow'.tasks
                    /\ workflow'.tasks[i].position = workflow.tasks[i].position]_vars

ZoomInRange == ZoomMin <= viewport.zoom /\ viewport.zoom <= ZoomMax

\* C16: in every reachable state 0.1 <= zoom <= 3.0, and a wheel event sets
\* the zoom to zoom - deltaY * 0.001 clamped to [0.1, 3.0] and changes
\* neither the viewport offset nor the workflow (in memory or persisted).
C16_ZoomClamped ==
    /\ []ZoomInRange
    /\ [][(lastOp'.op = "wheel" /\ frames' = frames + 1) =>
            /\ viewport'.x = viewport.x
            /\ viewport'.y = viewport.y
            /\ viewport'.zoom =
                  (IF viewport.zoom - lastOp'.a < ZoomMin THEN ZoomMin
                   ELSE IF viewport.zoom - lastOp'.a > ZoomMax THEN ZoomMax
                   ELSE viewport.zoom - lastOp'.a)
            /\ UNCHANGED <<workflow, store, currentWorkflow>>]_vars

\* a wheel event has just been clamped at the upper limit, on a panned
\* viewport showing a task
C16_Witness ==
    /\ lastOp.op = "wheel"
    /\ viewport.zoom = ZoomMax
    /\ viewport.zoom # ZoomInit - lastOp.a
    /\ viewport.x # 0
    /\ workflow.tasks # <<>>

Idle == ~isPanning /\ draggingTaskId = NULL /\ connectingFromId = NULL

\* C17: after every pointer-up (on the canvas, over a node body, over an input
\* handle) and every pointer-leave, the interaction state is Idle.
C17_PointerUpIdle ==
    lastOp.op \in {"mouseUp", "inputMouseUp"} => Idle

\* C18: in every reachable state at most one of isPanning,
\* draggingTaskId # null, connectingFromId # null holds.
C18_OneGesture ==
    /\ ~(isPanning /\ draggingTaskId # NULL)
    /\ ~(isPanning /\ connectingFromId # NULL)
    /\ ~(draggingTaskId # NULL /\ connectingFromId # NULL)

\* C19: from Idle, a pointer-down on an output handle enters Connecting(node)
\* only (no drag, selection unchanged) and a pointer-down on a node body
\* enters DraggingNode(node) and selects the node; neither enters Panning,
\* with the pan modifier held or not.
C19_PointerDownPrecedence ==
    [][(Idle /\ now' = now) =>
         /\ lastOp'.op = "outputMouseDown" =>
               /\ connectingFromId' = lastOp'.a
               /\ draggingTaskId' = NULL
               /\ selectedTaskId' = selectedTaskId
               /\ ~isPanning'
         /\ lastOp'.op = "nodeMouseDown" =>
               /\ draggingTaskId' = lastOp'.a
               /\ selectedTaskId' = lastOp'.a
               /\ connectingFromId' = NULL
               /\ ~isPanning']_vars

\* a pointer-down with the pan modifier held has just entered Connecting
\* from the output handle of a node while another node was selected
C19_Witness ==
    /\ lastOp.op = "outputMouseDown"
    /\ lastOp.b = 1
    /\ connectingFromId = lastOp.a
    /\ selectedTaskId # NULL
    /\ selectedTaskId # lastOp.a
    /\ draggingTaskId = NULL
    /\ ~isPanning

\* C20: a pointer-down on the canvas background, or anywhere on the canvas
\* with the pan modifier held, ends in Panning with no task selected.
C20_PanningClearsSelection ==
    [][(lastOp'.op = "mouseDown" /\ now' = now
          /\ (lastOp'.a = 1 \/ lastOp'.b = 1))
         => isPanning' /\ selectedTaskId' = NULL]_vars

\* C21: while a connection is pending (connectingFromId = sourceId), a
\* pointer-move changes neither the workflow nor the store; a pointer-up that
\* is not over an input handle drops the pending connection and changes
\* neither; a pointer-up over the input handle of a node with another id
\* leaves sourceId in the dependencies of that node, in memory and persisted.
C21_ConnectingGesture ==
    [][(connectingFromId # NULL /\ now' = now) =>
         /\ (lastOp'.op = "mouseMove" /\ frames' = frames + 1) =>
               UNCHANGED <<workflow, store>>
         /\ lastOp'.op = "mouseUp" =>
               connectingFromId' = NULL /\ UNCHANGED <<workflow, store>>
         /\ (lastOp'.op = "inputMouseUp" /\ lastOp'.b # connectingFromId) =>
               /\ connectingFromId' = NULL
               /\ \A i \in DOMAIN workflow'.tasks :
                     workflow'.tasks[i].id = lastOp'.b =>
                         /\ Includes(workflow'.tasks[i].dependencies, connectingFromId)
                         /\ Includes(Persisted(store', workflow'.id).tasks[i].dependencies,
                                     connectingFromId)]_vars

\* C22: an addTask appends exactly one task at the end of the task list and
\* leaves the tasks before it as they were; the new task depends on exactly
\* the selected task when a task of the workflow is selected at the call and
\* on nothing otherwise; afterwards the new task is the selected task.
C22_AddTask ==
    [][(lastOp'.op = "addTask" /\ now' = now) =>
         LET new == workflow'.tasks[Len(workflow'.tasks)]
         IN /\ Len(workflow'.tasks) = Len(workflow.tasks) + 1
            /\ SubSeq(workflow'.tasks, 1, Len(workflow.tasks)) = workflow.tasks
            /\ new.dependencies =
                  (IF HasTask(workflow.tasks, selectedTaskId)
                   THEN <<selectedTaskId>> ELSE <<>>)
            /\ selectedTaskId' = new.id]_vars

\* C23: an update of task id from the panel (fields, or config) sets the
\* fields it names and leaves the other fields of task id, every task with
\* another id and the rest of the workflow as they were (a change of type
\* leaves config and dependencies alone); and an update for an id that no
\* task has changes no task.
C23_UpdateTaskMerges ==
    /\ [][(lastOp'.op \in {"updateTask", "updateConfig"} /\ now' = now) =>
            /\ Len(workflow'.tasks) = Len(workflow.tasks)
            /\ [workflow' EXCEPT !.tasks = workflow.tasks] = workflow
            /\ \A i \in DOMAIN workflow.tasks :
                  IF workflow.tasks[i].id = lastOp'.a
                  THEN /\ DOMAIN workflow'.tasks[i] = DOMAIN workflow.tasks[i]
                       /\ \A f \in DOMAIN workflow.tasks[i] :
                             workflow'.tasks[i][f] =
                                 (IF f \in DOMAIN lastOp'.updates THEN lastOp'.updates[f]
                                  ELSE workflow.tasks[i][f])
                  ELSE workflow'.tasks[i] = workflow.tasks[i]]_vars
    /\ [](\A id \in (1..MaxClock) \ TaskIds : \A updates \in PanelUpdates :
             /\ updateTasks(workflow.tasks, id, updates) = workflow.tasks
             /\ configUpdated(workflow, id, "targetKey", "result") = workflow)

\* the type of a task whose config had been edited has just been changed,
\* next to a task with another id
C23_Witness ==
    /\ lastOp.op = "updateTask"
    /\ "type" \in DOMAIN lastOp.updates
    /\ Len(workflow.tasks) = 2
    /\ workflow.tasks[1].id # workflow.tasks[2].id
    /\ \E i \in DOMAIN workflow.tasks :
          /\ workflow.tasks[i].id = lastOp.a
          /\ workflow.tasks[i].type = "ANALYSIS"
          /\ workflow.tasks[i].config.inputType = "file"
          /\ workflow.tasks[i].dependencies # <<>>

\* C24: the status shown for a task is that of the last appended log entry
\* whose taskId is the task's id and whose timestamp is the workflow's
\* lastRun, and PENDING when there is no such entry
LatestStatus(w, id) ==
    LET matching == {i \in DOMAIN w.logs : /\ w.logs[i].taskId = id
                                         /\ w.logs[i].timestamp = w.lastRun}
    IN IF matching = {} THEN "PENDING"
       ELSE w.logs[CHOOSE i \in matching : \A j \in matching : j <= i].status

C24_LatestLogEntry ==
    lastOp.op = "getTaskStatus" => lastOp.was = LatestStatus(workflow, lastOp.a)

\* C25: whenever the status of the workflow becomes RUNNING it eventually
\* becomes COMPLETED or FAILED, and whenever the status is COMPLETED or FAILED
\* and the Execute button is shown, a run request is accepted
C25_RunsTerminate ==
    /\ (currentWorkflow.status = "RUNNING") ~> (currentWorkflow.status \in Terminal)
    /\ [](/\ mounted
          /\ ~crashed
          /\ selectedTaskObj = 0
          /\ currentWorkflow.status \in Terminal
          => ENABLED onRun)

\* C26: after a run's completion the tasks (and their dependencies) of the
\* workflow in memory are those of the persisted workflow, so that an edit
\* saved between the run's start and its completion is still there
C26_EditsSurviveCompletion ==
    lastOp.op = "complete" =>
        /\ workflow.tasks = Persisted(store, lastOp.a).tasks
        /\ currentWorkflow.tasks = Persisted(store, lastOp.a).tasks

\* C27: a run's completion that arrives while the workflow it was started on
\* is not the open one (the lab view is closed, or shows another workflow)
\* leaves the App's current workflow and the engine's workflow as they are
C27_CompletionOnlyItsWorkflow ==
    [][(lastOp'.op = "complete" /\ timers' # timers
        /\ currentWorkflow.id # lastOp'.a) =>
            /\ currentWorkflow' = currentWorkflow
            /\ workflow' = workflow]_vars

\* the config of every task with the id, in a workflow, has the three fields
\* of the updates object
HasFileFields(w, taskId, updates) ==
    \A i \in DOMAIN w.tasks :
        w.tasks[i].id = taskId =>
            \A f \in DOMAIN updates :
                /\ f \in DOMAIN w.tasks[i].config
                /\ w.tasks[i].config[f] = updates[f]

\* C28: when handleFileUpload has completed on a task the workflow still has,
\* the task's config has fileName, fileType and inputValue of the file, in
\* memory and in the store, and the rest of the workflow is as it was just
\* before the upload completed (edits made during the read are kept)
C28_FileUploadRecordsAll ==
    [][(/\ lastOp'.op \in {"chooseFile", "fileRead"}
        /\ now' = now
        /\ Len(uploads') <= Len(uploads)
        /\ HasTask(workflow.tasks, lastOp'.a)) =>
            /\ HasFileFields(workflow', lastOp'.a, lastOp'.updates)
            /\ HasFileFields(Persisted(store', workflow'.id), lastOp'.a,
                             lastOp'.updates)
            /\ Len(workflow'.tasks) = Len(workflow.tasks)
            /\ \A i \in DOMAIN workflow.tasks :
                  /\ [workflow'.tasks[i] EXCEPT !.config = 0]
                       = [workflow.tasks[i] EXCEPT !.config = 0]
                  /\ \A f \in DOMAIN workflow.tasks[i].config
                            \ DOMAIN lastOp'.updates :
                        /\ f \in DOMAIN workflow'.tasks[i].config
                        /\ workflow'.tasks[i].config[f]
                             = workflow.tasks[i].config[f]]_vars

\* C29: selectedTaskId, draggingTaskId and connectingFromId are each null or
\* the id of a task of the workflow in memory, so the source-task lookup of
\* the rubber-band line never fails (no render throws)
C29_InteractionIdsExist ==
    /\ selectedTaskId \in TaskIds \cup {NULL}
    /\ draggingTaskId \in TaskIds \cup {NULL}
    /\ connectingFromId \in TaskIds \cup {NULL}
    /\ ~crashed

\* C30: whenever no run is in progress, the status and lastRun stored for the
\* open workflow are the status and lastRun in memory
C30_NoStaleRunStatus ==
    (mounted /\ timers = <<>>) =>
        /\ Persisted(store, currentWorkflow.id).status = currentWorkflow.status
        /\ Persisted(store, currentWorkflow.id).lastRun = currentWorkflow.lastRun

====
